---- MODULE Spec2Model ----
(***************************************************************************)
(* Model of asn-fetcher-rs: the three ASN lookup providers (Ripe, IPApi,   *)
(* TeamCymruWhois) and the helpers of src/asn/client.rs.                   *)
(*                                                                         *)
(* Representation.                                                         *)
(*  - A string is a sequence of tokens.  A token is a one-character string *)
(*    where the code looks at characters (whois output, decimal digits)    *)
(*    and a whole literal where the code only concatenates (format!).      *)
(*  - A serde_json::Value is a tagged tuple: <<"null">>, <<"bool", b>>,    *)
(*    <<"num", class, n>>, <<"str", s>>, <<"arr", seq>>, <<"obj", f>>      *)
(*    where f is a function from the keys present to their values.         *)
(*  - Option<T> is <<"None">> or <<"Some", x>>.                            *)
(*  - Result<Vec<AsnInfo>, io::Error> is the record built by Ok and Err.   *)
(*    origin is a ghost field: which source expression built the error.    *)
(***************************************************************************)
EXTENDS Integers, Sequences, FiniteSets

VARIABLES
    pc,             \* position of the running lookup_asn call
    provider,       \* "Ripe" | "IPApi" | "TeamCymruWhois"
    ip,             \* the IpAddr argument, as its Display text
    env,            \* what the outside world answers to this call
    request,        \* Option: the URL requested / the argv spawned by the call
    sent,           \* number of requests sent / subprocesses spawned
    response_text,  \* IPApi: Option<String> read from the response body
    json,           \* Option<Value>: the parsed body
    data,           \* Ripe: Option<Value>, json_data.get("data")
    asns_array,     \* Ripe: Option<seq of Value>, the 'asns' array
    result,         \* the value lookup_asn returns
    os,             \* the process's command line and what its host provides
    source,         \* args.source, the provider name asked for
    output,         \* the lines the program wrote, each with its stream
    exit_code,      \* Option: the exit status of the process
    history,        \* the requests issued by the earlier calls on this instance
    config          \* the fields of the provider instance, fixed by its constructor

\* the variables no lookup_asn step writes
outer == <<os, source, output, exit_code, history, config>>

vars == <<pc, provider, ip, env, request, sent, response_text, json, data, asns_array, result, outer>>

----------------------------------------------------------------------------
(* Bounds of the model *)

MaxStdout == 5
MaxStderr == 2
MaxAsns == 2
MaxCalls == 2

----------------------------------------------------------------------------
(* Option, Result, AsnInfo *)

None == <<"None">>

Some(x) == <<"Some", x>>

IsSome(o) == o[1] = "Some"

Unwrap(o) == o[2]

NoResult == [tag |-> "None", val |-> <<>>, kind |-> "", msg |-> <<>>, origin |-> ""]

Ok(v) == [tag |-> "Ok", val |-> v, kind |-> "", msg |-> <<>>, origin |-> ""]

Err(kind, msg, origin) == [tag |-> "Err", val |-> <<>>, kind |-> kind, msg |-> msg, origin |-> origin]

AsnInfo(asn, holder) == [asn |-> asn, holder |-> holder]

----------------------------------------------------------------------------
(* Strings *)

SeqsUpTo(S, n) == UNION {[1..k -> S] : k \in 0..n}

Whitespace == {" ", "\t", "\n", "\r"}

RECURSIVE TrimStart(_)
TrimStart(s) == IF s # <<>> /\ Head(s) \in Whitespace THEN TrimStart(Tail(s)) ELSE s

RECURSIVE TrimEnd(_)
TrimEnd(s) == IF s # <<>> /\ s[Len(s)] \in Whitespace THEN TrimEnd(SubSeq(s, 1, Len(s) - 1)) ELSE s

Trim(s) == TrimEnd(TrimStart(s))

\* index of the first occurrence of token c in s, 0 when there is none
RECURSIVE IndexOf(_, _, _)
IndexOf(s, c, i) == IF i > Len(s) THEN 0 ELSE IF s[i] = c THEN i ELSE IndexOf(s, c, i + 1)

\* str::split(c): the pieces between the separators, n+1 pieces for n separators
RECURSIVE Split(_, _)
Split(s, c) ==
    LET i == IndexOf(s, c, 1)
    IN  IF i = 0 THEN <<s>>
        ELSE <<SubSeq(s, 1, i - 1)>> \o Split(SubSeq(s, i + 1, Len(s)), c)

StartsWith(s, p) == Len(s) >= Len(p) /\ SubSeq(s, 1, Len(p)) = p

\* s contains p as a contiguous run of tokens
Contains(s, p) == \E i \in 0..(Len(s) - Len(p)) : SubSeq(s, i + 1, i + Len(p)) = p

Digit(d) == CASE d = 0 -> "0" [] d = 1 -> "1" [] d = 2 -> "2" [] d = 3 -> "3" [] d = 4 -> "4"
              [] d = 5 -> "5" [] d = 6 -> "6" [] d = 7 -> "7" [] d = 8 -> "8" [] d = 9 -> "9"

\* u64::to_string / u16 Display: the decimal digits, most significant first
RECURSIVE to_string(_)
to_string(n) == IF n < 10 THEN <<Digit(n)>> ELSE to_string(n \div 10) \o <<Digit(n % 10)>>

----------------------------------------------------------------------------
(* serde_json::Value *)

JNull == <<"null">>

JBool(b) == <<"bool", b>>

\* class is "u64" (N::PosInt), "neg" (N::NegInt) or "f64" (N::Float, n + 0.5)
JNum(class, n) == <<"num", class, n>>

JStr(s) == <<"str", s>>

JArr(a) == <<"arr", a>>

JObj(f) == <<"obj", f>>

\* Value::get(key): Some(member) of an object that has the key
Get(v, key) == IF v[1] = "obj" /\ key \in DOMAIN v[2] THEN Some(v[2][key]) ELSE None

\* value[key]: the member, Null when v is no object or lacks the key
Index(v, key) == IF v[1] = "obj" /\ key \in DOMAIN v[2] THEN v[2][key] ELSE JNull

as_bool(v) == IF v[1] = "bool" THEN Some(v[2]) ELSE None

as_str(v) == IF v[1] = "str" THEN Some(v[2]) ELSE None

as_u64(v) == IF v[1] = "num" /\ v[2] = "u64" THEN Some(v[3]) ELSE None

as_array(v) == IF v[1] = "arr" THEN Some(v[2]) ELSE None

\* .and_then(|v| v.as_bool()), .and_then(|v| v.as_str()), .and_then(|v| v.as_array())
and_then_as_bool(o) == IF IsSome(o) THEN as_bool(Unwrap(o)) ELSE None

and_then_as_str(o) == IF IsSome(o) THEN as_str(Unwrap(o)) ELSE None

and_then_as_array(o) == IF IsSome(o) THEN as_array(Unwrap(o)) ELSE None

\* Option::unwrap_or
UnwrapOr(o, d) == IF IsSome(o) THEN Unwrap(o) ELSE d

\* A response body is <<"json", v>>, the text of the JSON document v, or
\* <<"text", raw>>, a text raw that is not JSON.
\* serde_json::from_str / Response::json decoding
from_str(body) == IF body[1] = "json" THEN Some(body[2]) ELSE None

\* the characters of the body, as format!("{}", response_text) prints them
BodyText(body) == IF body[1] = "text" THEN body[2] ELSE <<"<json>">>

\* StatusCode::is_success
is_success(status) == 200 <= status /\ status <= 299

\* StatusCode::canonical_reason
canonical_reason(status) ==
    CASE status = 200 -> "OK"
      [] status = 204 -> "No Content"
      [] status = 404 -> "Not Found"
      [] status = 429 -> "Too Many Requests"
      [] status = 500 -> "Internal Server Error"
      [] OTHER -> "<unknown status code>"

\* Display for StatusCode
StatusDisplay(status) == to_string(status) \o <<" ", canonical_reason(status)>>

\* the reqwest::Error of a body that does not decode as JSON
DecodeError == [is_timeout |-> FALSE, is_connect |-> FALSE, text |-> <<"error decoding response body">>]

----------------------------------------------------------------------------
(* src/asn/client.rs *)

format_provider_error(prov, message) == <<"[", prov, "] ">> \o message

\* map_reqwest_error asking is_connect() before is_timeout()
map_reqwest_error_ConnectFirst(err) ==
    IF err.is_connect THEN Err("ConnectionRefused", err.text, "map_reqwest_error")
    ELSE IF err.is_timeout THEN Err("TimedOut", err.text, "map_reqwest_error")
    ELSE Err("Other", err.text, "map_reqwest_error")

map_reqwest_error(err) ==
    IF err.is_timeout THEN Err("TimedOut", err.text, "map_reqwest_error")
    ELSE IF err.is_connect THEN Err("ConnectionRefused", err.text, "map_reqwest_error")
    ELSE Err("Other", err.text, "map_reqwest_error")

----------------------------------------------------------------------------
(* src/asn/teamcymru.rs *)

CMD == <<"whois">>

SERVER == <<"whois.cymru.com">>

\* a byte that is not valid UTF-8
BadByte == "\\xFF"

\* BufRead::read_until(b'\n') repeated: the raw lines of a byte buffer
RECURSIVE RawLines(_)
RawLines(bytes) ==
    LET i == IndexOf(bytes, "\n", 1)
    IN  IF bytes = <<>> THEN <<>>
        ELSE IF i = 0 THEN <<bytes>>
        ELSE <<SubSeq(bytes, 1, i - 1)>> \o RawLines(SubSeq(bytes, i + 1, Len(bytes)))

\* BufRead::lines: each line without its "\n" or "\r\n", Err when not UTF-8
LineResult(raw) ==
    IF \E i \in 1..Len(raw) : raw[i] = BadByte THEN <<"Err">>
    ELSE IF raw # <<>> /\ raw[Len(raw)] = "\r" THEN <<"Ok", SubSeq(raw, 1, Len(raw) - 1)>>
    ELSE <<"Ok", raw>>

Lines(bytes) == [i \in 1..Len(RawLines(bytes)) |-> LineResult(RawLines(bytes)[i])]

\* parse_asn_info taking the holder from the second field
parse_asn_info_HolderIsSecondField(line) ==
    LET parts == Split(line, "|")
    IN  IF Len(parts) # 3 THEN None
        ELSE Some(AsnInfo(Trim(parts[1]), Trim(parts[2])))

parse_asn_info(line) ==
    LET parts == Split(line, "|")
    IN  IF Len(parts) # 3 THEN None
        ELSE Some(AsnInfo(Trim(parts[1]), Trim(parts[3])))

\* SkipHeader without the lines.next() call: the header is parsed as data
SkipHeader_KeepsHeader(lines) == lines

\* lines.next(): drop the first item when there is one
SkipHeader(lines) == IF lines = <<>> THEN <<>> ELSE Tail(lines)

\* .map_while(Result::ok): the lines up to the first Err
RECURSIVE MapWhileOk(_)
MapWhileOk(lines) ==
    IF lines = <<>> \/ Head(lines)[1] # "Ok" THEN <<>>
    ELSE <<Head(lines)[2]>> \o MapWhileOk(Tail(lines))

\* .map_while(Self::parse_asn_info): the records up to the first None
RECURSIVE MapWhileParsed(_)
MapWhileParsed(lines) ==
    IF lines = <<>> \/ ~IsSome(parse_asn_info(Head(lines))) THEN <<>>
    ELSE <<Unwrap(parse_asn_info(Head(lines)))>> \o MapWhileParsed(Tail(lines))

\* TeamCymruWhois: a unit struct, its configuration is its associated constants
TeamCymruWhoisNew == [cmd |-> CMD, server |-> SERVER]

CymruArgv(addr) == <<CMD, <<"-h">>, SERVER, addr>>

\* CymruRun reporting the standard error as captured, without stderr.trim()
CymruRun_UntrimmedStderr ==
    /\ provider = "TeamCymruWhois"
    /\ pc = "start"
    /\ sent' = sent + 1
    /\ request' = Some(CymruArgv(ip))
    /\ IF env.spawn # "ok"
       THEN /\ result' = Err("Other",
                             format_provider_error("TeamCymruWhois",
                                 <<"Command failed: ">> \o env.oserr \o <<", is whois installed?">>),
                             "provider")
            /\ pc' = "done"
       ELSE IF env.exit # 0
       THEN /\ result' = Err("Other",
                             format_provider_error("TeamCymruWhois",
                                 <<"Command failed: ">> \o env.stderr),
                             "provider")
            /\ pc' = "done"
       ELSE /\ result' = result
            /\ pc' = "output"
    /\ UNCHANGED <<outer, provider, ip, env, response_text, json, data, asns_array>>

\* Command::new(CMD).args(..).output() and the match on its result
CymruRun ==
    /\ provider = "TeamCymruWhois"
    /\ pc = "start"
    /\ sent' = sent + 1
    /\ request' = Some(CymruArgv(ip))
    /\ IF env.spawn # "ok"
       THEN /\ result' = Err("Other",
                             format_provider_error("TeamCymruWhois",
                                 <<"Command failed: ">> \o env.oserr \o <<", is whois installed?">>),
                             "provider")
            /\ pc' = "done"
       ELSE IF env.exit # 0
       THEN /\ result' = Err("Other",
                             format_provider_error("TeamCymruWhois",
                                 <<"Command failed: ">> \o Trim(env.stderr)),
                             "provider")
            /\ pc' = "done"
       ELSE /\ result' = result
            /\ pc' = "output"
    /\ UNCHANGED <<outer, provider, ip, env, response_text, json, data, asns_array>>

\* output.stdout.lines(), skip the header, collect the records
CymruParse ==
    /\ provider = "TeamCymruWhois"
    /\ pc = "output"
    /\ result' = Ok(MapWhileParsed(MapWhileOk(SkipHeader(Lines(env.stdout)))))
    /\ pc' = "done"
    /\ UNCHANGED <<outer, provider, ip, env, request, sent, response_text, json, data, asns_array>>

----------------------------------------------------------------------------
(* src/asn/ipapi.rs *)

IPAPI_TIMEOUT_SECS == 10

\* IPApi::new: the fields of the instance it returns
IPApiNew == [user_agent |-> <<"asn-fetcher/0.1.1">>, timeout |-> IPAPI_TIMEOUT_SECS]

\* the match on env::var("IPAPI_API_KEY")
IPApiUrl(addr, api_key) ==
    IF IsSome(api_key)
    THEN <<"https://ipapi.co/">> \o addr \o <<"/json?key=">> \o Unwrap(api_key)
    ELSE <<"https://ipapi.co/">> \o addr \o <<"/json">>

\* self.client.get(&url).send().map_err(map_reqwest_error)?
IPApiSend ==
    /\ provider = "IPApi"
    /\ pc = "start"
    /\ request' = Some(IPApiUrl(ip, env.api_key))
    /\ sent' = sent + 1
    /\ IF IsSome(env.send_err)
       THEN /\ result' = map_reqwest_error(Unwrap(env.send_err))
            /\ pc' = "done"
       ELSE /\ result' = result
            /\ pc' = "response"
    /\ UNCHANGED <<outer, provider, ip, env, response_text, json, data, asns_array>>

\* IPApiStatus without the status check: every response goes on to the body
IPApiStatus_NoCheck ==
    /\ provider = "IPApi"
    /\ pc = "response"
    /\ result' = result
    /\ pc' = "status_ok"
    /\ UNCHANGED <<outer, provider, ip, env, request, sent, response_text, json, data, asns_array>>

\* if !response.status().is_success() { return Err(..) }
IPApiStatus ==
    /\ provider = "IPApi"
    /\ pc = "response"
    /\ IF ~is_success(env.status)
       THEN /\ result' = Err("Other", <<"HTTP error: ">> \o StatusDisplay(env.status), "provider")
            /\ pc' = "done"
       ELSE /\ result' = result
            /\ pc' = "status_ok"
    /\ UNCHANGED <<outer, provider, ip, env, request, sent, response_text, json, data, asns_array>>

\* response.text().map_err(map_reqwest_error)?
IPApiText ==
    /\ provider = "IPApi"
    /\ pc = "status_ok"
    /\ IF IsSome(env.read_err)
       THEN /\ result' = map_reqwest_error(Unwrap(env.read_err))
            /\ response_text' = response_text
            /\ pc' = "done"
       ELSE /\ result' = result
            /\ response_text' = Some(env.body)
            /\ pc' = "text"
    /\ UNCHANGED <<outer, provider, ip, env, request, sent, json, data, asns_array>>

\* serde_json::from_str(&response_text).map_err(|_| InvalidData ..)?
IPApiParse ==
    /\ provider = "IPApi"
    /\ pc = "text"
    /\ LET parsed == from_str(Unwrap(response_text))
       IN  IF ~IsSome(parsed)
           THEN /\ result' = Err("InvalidData",
                                 <<"API returned non-JSON response: ">> \o BodyText(Unwrap(response_text)),
                                 "provider")
                /\ json' = json
                /\ pc' = "done"
           ELSE /\ result' = result
                /\ json' = parsed
                /\ pc' = "json"
    /\ UNCHANGED <<outer, provider, ip, env, request, sent, response_text, data, asns_array>>

\* the 'error' check of the parsed body
\* IPApiIsError taking any 'error' other than false and null for an error
IPApiIsError_Truthy(j) ==
    LET error == Get(j, "error")
    IN  IsSome(error) /\ Unwrap(error) \notin {JBool(FALSE), JNull}

IPApiIsError(j) ==
    LET error == and_then_as_bool(Get(j, "error"))
    IN  IsSome(error) /\ Unwrap(error)

IPApiReason(j) == UnwrapOr(and_then_as_str(Get(j, "reason")), <<"Unknown error">>)

\* IPApiRecord reading the holder from 'holder' instead of 'org'
IPApiRecord_HolderKey(j) ==
    AsnInfo(UnwrapOr(and_then_as_str(Get(j, "asn")), <<"Unknown">>),
            UnwrapOr(and_then_as_str(Get(j, "holder")), <<"Unknown">>))

IPApiRecord(j) ==
    AsnInfo(UnwrapOr(and_then_as_str(Get(j, "asn")), <<"Unknown">>),
            UnwrapOr(and_then_as_str(Get(j, "org")), <<"Unknown">>))

\* the in-band error check and the construction of the single record
IPApiFinish ==
    /\ provider = "IPApi"
    /\ pc = "json"
    /\ IF IPApiIsError(Unwrap(json))
       THEN result' = Err("Other", <<"API error: ">> \o IPApiReason(Unwrap(json)), "provider")
       ELSE result' = Ok(<<IPApiRecord(Unwrap(json))>>)
    /\ pc' = "done"
    /\ UNCHANGED <<outer, provider, ip, env, request, sent, response_text, json, data, asns_array>>

----------------------------------------------------------------------------
(* src/asn/ripe.rs *)

DEFAULT_SERVER_URL == <<"https://stat.ripe.net/data/prefix-overview/data.json">>

TIMEOUT_SECS == 10

\* Ripe::new: the fields of the instance it returns
RipeNew == [server_url |-> DEFAULT_SERVER_URL, timeout |-> TIMEOUT_SECS]

RipeUrl(server_url, addr) == server_url \o <<"?resource=">> \o addr

\* RipeSend sending the request a second time after a timeout
RipeSend_RetriesOnTimeout ==
    /\ provider = "Ripe"
    /\ pc = "start"
    /\ request' = Some(RipeUrl(config.server_url, ip))
    /\ sent' = sent + 1
    /\ IF IsSome(env.send_err) /\ Unwrap(env.send_err).is_timeout /\ sent < 1
       THEN /\ result' = result
            /\ pc' = "start"
       ELSE IF IsSome(env.send_err)
       THEN /\ result' = map_reqwest_error(Unwrap(env.send_err))
            /\ pc' = "done"
       ELSE /\ result' = result
            /\ pc' = "response"
    /\ UNCHANGED <<outer, provider, ip, env, response_text, json, data, asns_array>>

\* self.client.get(&url).send().map_err(map_reqwest_error)?
RipeSend ==
    /\ provider = "Ripe"
    /\ pc = "start"
    /\ request' = Some(RipeUrl(config.server_url, ip))
    /\ sent' = sent + 1
    /\ IF IsSome(env.send_err)
       THEN /\ result' = map_reqwest_error(Unwrap(env.send_err))
            /\ pc' = "done"
       ELSE /\ result' = result
            /\ pc' = "response"
    /\ UNCHANGED <<outer, provider, ip, env, response_text, json, data, asns_array>>

\* RipeJson with response.error_for_status() before the body is decoded
RipeJson_ChecksStatus ==
    /\ provider = "Ripe"
    /\ pc = "response"
    /\ IF ~is_success(env.status)
       THEN /\ result' = map_reqwest_error([is_timeout |-> FALSE, is_connect |-> FALSE,
                                             text |-> <<"HTTP status error">>])
            /\ json' = json
            /\ pc' = "done"
       ELSE IF IsSome(env.read_err)
       THEN /\ result' = map_reqwest_error(Unwrap(env.read_err))
            /\ json' = json
            /\ pc' = "done"
       ELSE IF ~IsSome(from_str(env.body))
       THEN /\ result' = map_reqwest_error(DecodeError)
            /\ json' = json
            /\ pc' = "done"
       ELSE /\ result' = result
            /\ json' = from_str(env.body)
            /\ pc' = "json"
    /\ UNCHANGED <<outer, provider, ip, env, request, sent, response_text, data, asns_array>>

\* RipeJson building InvalidData itself for a body that is not JSON, as IPApi does
RipeJson_DecodeIsInvalidData ==
    /\ provider = "Ripe"
    /\ pc = "response"
    /\ IF IsSome(env.read_err)
       THEN /\ result' = map_reqwest_error(Unwrap(env.read_err))
            /\ json' = json
            /\ pc' = "done"
       ELSE IF ~IsSome(from_str(env.body))
       THEN /\ result' = Err("InvalidData", <<"API returned non-JSON response: ">> \o BodyText(env.body),
                             "provider")
            /\ json' = json
            /\ pc' = "done"
       ELSE /\ result' = result
            /\ json' = from_str(env.body)
            /\ pc' = "json"
    /\ UNCHANGED <<outer, provider, ip, env, request, sent, response_text, data, asns_array>>

\* response.json().map_err(map_reqwest_error)?
RipeJson ==
    /\ provider = "Ripe"
    /\ pc = "response"
    /\ IF IsSome(env.read_err)
       THEN /\ result' = map_reqwest_error(Unwrap(env.read_err))
            /\ json' = json
            /\ pc' = "done"
       ELSE IF ~IsSome(from_str(env.body))
       THEN /\ result' = map_reqwest_error(DecodeError)
            /\ json' = json
            /\ pc' = "done"
       ELSE /\ result' = result
            /\ json' = from_str(env.body)
            /\ pc' = "json"
    /\ UNCHANGED <<outer, provider, ip, env, request, sent, response_text, data, asns_array>>

\* RipeData written as json_data["data"]: a missing 'data' reads as Null
RipeData_IndexInsteadOfGet ==
    /\ provider = "Ripe"
    /\ pc = "json"
    /\ result' = result
    /\ data' = Some(Index(Unwrap(json), "data"))
    /\ pc' = "data"
    /\ UNCHANGED <<outer, provider, ip, env, request, sent, response_text, json, asns_array>>

\* json_data.get("data").ok_or_else(..)?
RipeData ==
    /\ provider = "Ripe"
    /\ pc = "json"
    /\ LET d == Get(Unwrap(json), "data")
       IN  IF ~IsSome(d)
           THEN /\ result' = Err("InvalidData", <<"Missing 'data' field in response">>, "provider")
                /\ data' = data
                /\ pc' = "done"
           ELSE /\ result' = result
                /\ data' = d
                /\ pc' = "data"
    /\ UNCHANGED <<outer, provider, ip, env, request, sent, response_text, json, asns_array>>

\* RipeAsns taking a missing or non-array 'asns' for an empty array
RipeAsns_NonArrayIsEmpty ==
    /\ provider = "Ripe"
    /\ pc = "data"
    /\ result' = result
    /\ asns_array' = Some(UnwrapOr(and_then_as_array(Get(Unwrap(data), "asns")), <<>>))
    /\ pc' = "asns"
    /\ UNCHANGED <<outer, provider, ip, env, request, sent, response_text, json, data>>

\* data.get("asns").and_then(|v| v.as_array()).ok_or_else(..)?
RipeAsns ==
    /\ provider = "Ripe"
    /\ pc = "data"
    /\ LET a == and_then_as_array(Get(Unwrap(data), "asns"))
       IN  IF ~IsSome(a)
           THEN /\ result' = Err("InvalidData", <<"Missing or invalid 'asns' field in response">>, "provider")
                /\ asns_array' = asns_array
                /\ pc' = "done"
           ELSE /\ result' = result
                /\ asns_array' = a
                /\ pc' = "asns"
    /\ UNCHANGED <<outer, provider, ip, env, request, sent, response_text, json, data>>

\* RipeRecord with the two sentinels exchanged
RipeRecord_SwappedSentinels(asn_obj) ==
    LET n == as_u64(Index(asn_obj, "asn"))
    IN  AsnInfo(IF IsSome(n) THEN to_string(Unwrap(n)) ELSE <<"Unknown">>,
                UnwrapOr(as_str(Index(asn_obj, "holder")), <<"N/A">>))

\* the closure of .map(|asn_obj| ..)
RipeRecord(asn_obj) ==
    LET n == as_u64(Index(asn_obj, "asn"))
    IN  AsnInfo(IF IsSome(n) THEN to_string(Unwrap(n)) ELSE <<"N/A">>,
                UnwrapOr(as_str(Index(asn_obj, "holder")), <<"Unknown">>))

\* asns_array.iter().map(..).collect(); Ok(asns)
\* RipeCollect dropping the elements of 'asns' that are no objects
RipeCollect_SkipsNonObjects ==
    /\ provider = "Ripe"
    /\ pc = "asns"
    /\ result' = Ok(LET objs == SelectSeq(Unwrap(asns_array), LAMBDA e : e[1] = "obj")
                    IN  [i \in 1..Len(objs) |-> RipeRecord(objs[i])])
    /\ pc' = "done"
    /\ UNCHANGED <<outer, provider, ip, env, request, sent, response_text, json, data, asns_array>>

RipeCollect ==
    /\ provider = "Ripe"
    /\ pc = "asns"
    /\ result' = Ok([i \in 1..Len(Unwrap(asns_array)) |-> RipeRecord(Unwrap(asns_array)[i])])
    /\ pc' = "done"
    /\ UNCHANGED <<outer, provider, ip, env, request, sent, response_text, json, data, asns_array>>

----------------------------------------------------------------------------
(* src/cli/args.rs and src/main.rs *)

\* the texts std::net::IpAddr parses
ValidIpTexts == {"127.0.0.1", "::1", "8.8.8.8", "2001:4860:4860::8888"}

\* clap's walk over the arguments of Args: -i/--ip <IP>, -s/--source <SOURCE>
\* and nothing else; acc.err records an argument clap rejects
RECURSIVE ParseArgv(_, _)
ParseArgv(argv, acc) ==
    IF argv = <<>> THEN acc
    ELSE IF Head(argv) \in {"--ip", "-i"} /\ Len(argv) >= 2 /\ ~IsSome(acc.ip)
    THEN ParseArgv(SubSeq(argv, 3, Len(argv)), [acc EXCEPT !.ip = Some(argv[2])])
    ELSE IF Head(argv) \in {"--source", "-s"} /\ Len(argv) >= 2 /\ ~IsSome(acc.source)
    THEN ParseArgv(SubSeq(argv, 3, Len(argv)), [acc EXCEPT !.source = Some(argv[2])])
    ELSE [acc EXCEPT !.err = TRUE]

\* Args::parse: Some(Args) or None when clap exits with a usage error
ArgsParse(argv) ==
    LET acc == ParseArgv(argv, [ip |-> None, source |-> None, err |-> FALSE])
    IN  IF acc.err \/ ~IsSome(acc.ip) \/ Unwrap(acc.ip) \notin ValidIpTexts THEN None
        ELSE Some([ip |-> <<Unwrap(acc.ip)>>, source |-> UnwrapOr(acc.source, "ripe")])

\* the exit status of a clap usage error
CLAP_USAGE_EXIT == 2

FallbackNotice(src) ==
    <<"stderr", <<"Unknown provider '", src, "', falling back to default provider: ripe">>>>

UsingNotice(name) == <<"stderr", <<"Using provider: ", name>>>>

\* create_asn_fetcher comparing the source without regard to case
create_asn_fetcher_IgnoresCase(src, builds) ==
    CASE src \in {"ipapi", "IPAPI"} ->
            IF builds THEN [provider |-> "IPApi", instance |-> Some(IPApiNew), lines |-> <<UsingNotice("ipapi")>>]
            ELSE [provider |-> "IPApi", instance |-> None, lines |-> <<>>]
      [] src = "cymru-whois" ->
            [provider |-> "TeamCymruWhois", instance |-> Some(TeamCymruWhoisNew),
             lines |-> <<UsingNotice("cymru-whois")>>]
      [] src \in {"ripe", "RIPE"} ->
            IF builds THEN [provider |-> "Ripe", instance |-> Some(RipeNew), lines |-> <<UsingNotice("ripe")>>]
            ELSE [provider |-> "Ripe", instance |-> None, lines |-> <<>>]
      [] OTHER ->
            IF builds
            THEN [provider |-> "Ripe", instance |-> Some(RipeNew),
                  lines |-> <<FallbackNotice(src), UsingNotice("ripe")>>]
            ELSE [provider |-> "Ripe", instance |-> None, lines |-> <<FallbackNotice(src)>>]

\* create_asn_fetcher: the provider chosen, its instance (None when the
\* constructor fails) and the lines written; builds tells whether
\* ClientBuilder::build() succeeds
create_asn_fetcher(src, builds) ==
    CASE src = "ipapi" ->
            IF builds THEN [provider |-> "IPApi", instance |-> Some(IPApiNew), lines |-> <<UsingNotice("ipapi")>>]
            ELSE [provider |-> "IPApi", instance |-> None, lines |-> <<>>]
      [] src = "cymru-whois" ->
            [provider |-> "TeamCymruWhois", instance |-> Some(TeamCymruWhoisNew),
             lines |-> <<UsingNotice("cymru-whois")>>]
      [] src = "ripe" ->
            IF builds THEN [provider |-> "Ripe", instance |-> Some(RipeNew), lines |-> <<UsingNotice("ripe")>>]
            ELSE [provider |-> "Ripe", instance |-> None, lines |-> <<>>]
      [] OTHER ->
            IF builds
            THEN [provider |-> "Ripe", instance |-> Some(RipeNew),
                  lines |-> <<FallbackNotice(src), UsingNotice("ripe")>>]
            ELSE [provider |-> "Ripe", instance |-> None, lines |-> <<FallbackNotice(src)>>]

\* Debug of AsnInfo, as println!("{:?}", asn) writes it
AsnInfoDebug(info) ==
    <<"stdout", <<"AsnInfo { asn: \"">> \o info.asn \o <<"\", holder: \"">> \o info.holder \o <<"\" }">>>>

NoProvider == "none"

NoConfig == [none |-> TRUE]

NoEnv == [none |-> TRUE]

NoIp == <<>>

\* let args = Args::parse();
MainParse ==
    /\ pc = "main"
    /\ LET args == ArgsParse(os.argv)
       IN  IF ~IsSome(args)
           THEN /\ exit_code' = Some(CLAP_USAGE_EXIT)
                /\ output' = Append(output, <<"stderr", <<"error: invalid arguments">>>>)
                /\ pc' = "exit"
                /\ UNCHANGED <<ip, source>>
           ELSE /\ ip' = Unwrap(args).ip
                /\ source' = Unwrap(args).source
                /\ pc' = "create"
                /\ UNCHANGED <<exit_code, output>>
    /\ UNCHANGED <<os, history, config, provider, env, request, sent, response_text, json, data,
                   asns_array, result>>

----------------------------------------------------------------------------
(* Inputs *)

IPs == {<<"8.8.8.8">>, <<"2001:4860:4860::8888">>}

\* reqwest::Error of send(): is_timeout() and is_connect() are independent
SendErrors ==
    {[is_timeout |-> t, is_connect |-> c, text |-> <<"error sending request">>] : t \in BOOLEAN, c \in BOOLEAN}

\* reqwest::Error of reading the body
ReadErrors ==
    {[is_timeout |-> t, is_connect |-> FALSE, text |-> <<"error decoding response body">>] : t \in BOOLEAN}

TextBodies ==
    {<<"text", <<>>>>, <<"text", <<"not valid json at all">>>>, <<"text", <<"Not Found">>>>,
     <<"text", <<"Internal Server Error">>>>}

Statuses == {200, 204, 404, 429, 500}

\* the objects with keys among K and members among V
Objects(K, V) == {JObj(f) : f \in UNION {[S -> V] : S \in SUBSET K}}

IPApiLeaves ==
    {JNull, JBool(TRUE), JBool(FALSE), JNum("u64", 1), JStr(<<"RateLimited">>), JStr(<<"AS15169">>)}

IPApiBodies ==
    TextBodies
    \cup {<<"json", v>> : v \in {JNull, JBool(TRUE), JNum("u64", 1), JStr(<<"error">>), JArr(<<>>)}}
    \cup {<<"json", v>> : v \in Objects({"error", "reason", "asn", "org"}, IPApiLeaves)}

NoBody == <<"text", <<>>>>

IPApiEnvs ==
    [api_key : {None, Some(<<"k">>)}, send_err : {Some(e) : e \in SendErrors}, status : {0},
     read_err : {None}, body : {NoBody}]
    \cup [api_key : {None, Some(<<"k">>)}, send_err : {None}, status : Statuses,
          read_err : {Some(e) : e \in ReadErrors}, body : {NoBody}]
    \cup [api_key : {None, Some(<<"k">>)}, send_err : {None}, status : Statuses,
          read_err : {None}, body : IPApiBodies]

\* a lookup_asn call made on an instance directly, outside of main
NoOs == [argv |-> <<>>, skip_lookup |-> FALSE, client_builds |-> TRUE]

InitIPApi ==
    /\ pc = "start"
    /\ provider = "IPApi"
    /\ ip \in IPs
    /\ env \in IPApiEnvs
    /\ request = None
    /\ sent = 0
    /\ response_text = None
    /\ json = None
    /\ data = None
    /\ asns_array = None
    /\ result = NoResult
    /\ os = NoOs
    /\ source = ""
    /\ output = <<>>
    /\ exit_code = None
    /\ history = <<>>
    /\ config = IPApiNew

NextIPApi == IPApiSend \/ IPApiStatus \/ IPApiText \/ IPApiParse \/ IPApiFinish

SpecIPApi == InitIPApi /\ [][NextIPApi]_vars

RipeAsnLeaves ==
    {JNum("u64", 0), JNum("u64", 15169), JNum("neg", -1), JNum("f64", 1), JStr(<<"not-a-number">>)}

RipeHolderLeaves == {JStr(<<"Google LLC">>), JNum("u64", 7), JNull}

\* an element of 'asns': an object with optional 'asn' and 'holder', or no object at all
RipeElements ==
    {JNull, JObj(<<>>)}
    \cup {JObj([asn |-> a, holder |-> h]) : a \in RipeAsnLeaves, h \in RipeHolderLeaves}
    \cup {JObj([asn |-> a]) : a \in RipeAsnLeaves}
    \cup {JObj([holder |-> h]) : h \in RipeHolderLeaves}

RipeAsnsValues ==
    {JNull, JStr(<<"none">>), JObj(<<>>)} \cup {JArr(a) : a \in SeqsUpTo(RipeElements, MaxAsns)}

RipeDataValues ==
    {JNull, JStr(<<"data">>), JArr(<<>>), JObj(<<>>), JObj([prefix |-> JStr(<<"8.8.8.0/24">>)])}
    \cup {JObj([asns |-> a]) : a \in RipeAsnsValues}

RipeBodies ==
    TextBodies
    \cup {<<"json", v>> : v \in {JNull, JNum("u64", 1), JArr(<<>>), JObj(<<>>), JObj([status |-> JStr(<<"ok">>)])}}
    \cup {<<"json", JObj([data |-> d])>> : d \in RipeDataValues}

RipeStatuses == {200, 404, 500}

RipeEnvs ==
    [send_err : {Some(e) : e \in SendErrors}, status : {0}, read_err : {None}, body : {NoBody}]
    \cup [send_err : {None}, status : RipeStatuses, read_err : {Some(e) : e \in ReadErrors}, body : {NoBody}]
    \cup [send_err : {None}, status : RipeStatuses, read_err : {None}, body : RipeBodies]

InitRipe ==
    /\ pc = "start"
    /\ provider = "Ripe"
    /\ ip \in IPs
    /\ env \in RipeEnvs
    /\ request = None
    /\ sent = 0
    /\ response_text = None
    /\ json = None
    /\ data = None
    /\ asns_array = None
    /\ result = NoResult
    /\ os = NoOs
    /\ source = ""
    /\ output = <<>>
    /\ exit_code = None
    /\ history = <<>>
    /\ config = RipeNew

NextRipe == RipeSend \/ RipeJson \/ RipeData \/ RipeAsns \/ RipeCollect

SpecRipe == InitRipe /\ [][NextRipe]_vars

\* the two HTTP providers together
InitHttp == InitRipe \/ InitIPApi

NextHttp == NextRipe \/ NextIPApi

SpecHttp == InitHttp /\ [][NextHttp]_vars

StdoutAlphabet == {"|", " ", "A", "\n", BadByte}

StderrAlphabet == {" ", "e"}

OsErrors == {<<"No such file or directory (os error 2)">>}

\* whois tables with a header line and more than one line after it
TableStdouts ==
    {<<"\n", "A", "|", "|", "\n", "|", "|", "A">>,
     <<"|", "|", "\n", "A", "|", "|", "\n", "|", "|", "A", "\n">>,
     <<"A", "\n", "A", "|", "|", "\n", "A", "\n", "|", "|", "A">>,
     <<"A", "\n", "A", "|", "|", "\n", BadByte, "\n", "|", "|", "A">>}

CymruEnvs ==
    [spawn : {"fail"}, oserr : OsErrors, exit : {0}, stdout : {<<>>}, stderr : {<<>>}]
    \cup [spawn : {"ok"}, oserr : {<<>>}, exit : {1, 2}, stdout : {<<>>, <<"\n", "|", "|">>},
          stderr : SeqsUpTo(StderrAlphabet, MaxStderr)]
    \cup [spawn : {"ok"}, oserr : {<<>>}, exit : {0},
          stdout : SeqsUpTo(StdoutAlphabet, MaxStdout) \cup TableStdouts,
          stderr : {<<>>, <<"e">>}]

InitCymru ==
    /\ pc = "start"
    /\ provider = "TeamCymruWhois"
    /\ ip \in IPs
    /\ env \in CymruEnvs
    /\ request = None
    /\ sent = 0
    /\ response_text = None
    /\ json = None
    /\ data = None
    /\ asns_array = None
    /\ result = NoResult
    /\ os = NoOs
    /\ source = ""
    /\ output = <<>>
    /\ exit_code = None
    /\ history = <<>>
    /\ config = TeamCymruWhoisNew

NextCymru == CymruRun \/ CymruParse

SpecCymru == InitCymru /\ [][NextCymru]_vars

\* one lookup_asn call on an instance of any of the three providers
InitLookup == InitRipe \/ InitIPApi \/ InitCymru

NextLookup == NextRipe \/ NextIPApi \/ NextCymru

SpecLookup == InitLookup /\ [][NextLookup]_vars

----------------------------------------------------------------------------
(* The program: main *)

Sources == {"ripe", "ipapi", "cymru-whois", "bogus", "RIPE", "IPAPI"}

Argvs ==
    {<<>>, <<"127.0.0.1">>, <<"::1">>, <<"not-an-ip">>, <<"--ip", "not-an-ip">>, <<"-i", "::1">>, <<"--ip">>}
    \cup {<<"--ip", a>> : a \in {"127.0.0.1", "::1"}}
    \cup {<<"--ip", "8.8.8.8", "--source", src>> : src \in Sources}
    \cup {<<"-s", src, "-i", "::1">> : src \in {"ipapi", "bogus"}}

\* what the world may answer to the single lookup main makes
MainEnvs(p) ==
    CASE p = "Ripe" ->
            {e \in RipeEnvs :
                /\ e.status \in {0, 200, 404}
                /\ e.body \in {NoBody, <<"text", <<"Not Found">>>>,
                               <<"json", JObj([status |-> JStr(<<"ok">>)])>>,
                               <<"json", JObj([data |-> JObj([asns |-> JArr(<<>>)])])>>,
                               <<"json", JObj([data |-> JObj([asns |-> JArr(<<JObj([asn |-> JNum("u64", 15169),
                                           holder |-> JStr(<<"Google LLC">>)])>>)])])>>}}
      [] p = "IPApi" ->
            {e \in IPApiEnvs :
                /\ e.status \in {0, 200, 429}
                /\ e.body \in {NoBody, <<"text", <<"not valid json at all">>>>,
                               <<"json", JObj([error |-> JBool(TRUE), reason |-> JStr(<<"RateLimited">>)])>>,
                               <<"json", JObj([asn |-> JStr(<<"AS15169">>), org |-> JStr(<<"AS15169">>)])>>}}
      [] p = "TeamCymruWhois" ->
            {e \in CymruEnvs :
                /\ e.stderr \in {<<>>, <<"e">>, <<" ", "e">>}
                /\ e.stdout \in {<<>>, <<"A">>, <<"A", "\n", "A", "|", "|", "A">>, <<"\n", "\n", "|", "|">>}}

\* match create_asn_fetcher(&args.source) { Ok(fetcher) => .., Err(e) => exit(1) }
MainCreate ==
    /\ pc = "create"
    /\ LET made == create_asn_fetcher(source, os.client_builds)
       IN  IF ~IsSome(made.instance)
           THEN /\ output' = output \o made.lines
                              \o <<<<"stderr", <<"Error: Failed to create ASN fetcher: ", "builder error">>>>>>
                /\ exit_code' = Some(1)
                /\ pc' = "exit"
                /\ UNCHANGED <<provider, config, env>>
           ELSE /\ output' = output \o made.lines
                /\ provider' = made.provider
                /\ config' = Unwrap(made.instance)
                /\ env' \in MainEnvs(made.provider)
                /\ pc' = "start"
                /\ UNCHANGED exit_code
    /\ UNCHANGED <<os, source, history, ip, request, sent, response_text, json, data, asns_array, result>>

\* match asn_fetcher.lookup_asn(args.ip) { Ok(asns) => print them, Err(e) => exit(1) }
MainReport ==
    /\ pc = "done"
    /\ IF result.tag = "Err"
       THEN /\ output' = Append(output, <<"stderr", <<"Error: Failed to lookup ASN for ">> \o ip
                                                     \o <<": ">> \o result.msg>>)
            /\ exit_code' = Some(1)
       ELSE /\ output' = output \o [i \in 1..Len(result.val) |-> AsnInfoDebug(result.val[i])]
            /\ exit_code' = Some(0)
    /\ pc' = "exit"
    /\ UNCHANGED <<os, source, history, config, provider, ip, env, request, sent, response_text, json,
                   data, asns_array, result>>

InitMain ==
    /\ pc = "main"
    /\ os \in [argv : Argvs, skip_lookup : BOOLEAN, client_builds : BOOLEAN]
    /\ provider = NoProvider
    /\ ip = NoIp
    /\ env = NoEnv
    /\ request = None
    /\ sent = 0
    /\ response_text = None
    /\ json = None
    /\ data = None
    /\ asns_array = None
    /\ result = NoResult
    /\ source = ""
    /\ output = <<>>
    /\ exit_code = None
    /\ history = <<>>
    /\ config = NoConfig

NextMain == MainParse \/ MainCreate \/ NextRipe \/ NextIPApi \/ NextCymru \/ MainReport

SpecMain == InitMain /\ [][NextMain]_vars

----------------------------------------------------------------------------
(* Repeated calls on one provider instance *)

\* the caller calls lookup_asn(ip) again on the same instance; the world,
\* the variable IPAPI_API_KEY included, may have changed since the last call
NewCall ==
    /\ pc = "done"
    /\ Len(history) < MaxCalls - 1
    /\ history' = Append(history, Unwrap(request))
    /\ env' \in MainEnvs(provider)
    /\ pc' = "start"
    /\ request' = None
    /\ sent' = 0
    /\ response_text' = None
    /\ json' = None
    /\ data' = None
    /\ asns_array' = None
    /\ result' = NoResult
    /\ UNCHANGED <<os, source, output, exit_code, config, provider, ip>>

InitReuse ==
    /\ pc = "start"
    /\ provider \in {"Ripe", "IPApi", "TeamCymruWhois"}
    /\ config = CASE provider = "Ripe" -> RipeNew
                  [] provider = "IPApi" -> IPApiNew
                  [] provider = "TeamCymruWhois" -> TeamCymruWhoisNew
    /\ ip \in IPs
    /\ env \in MainEnvs(provider)
    /\ request = None
    /\ sent = 0
    /\ response_text = None
    /\ json = None
    /\ data = None
    /\ asns_array = None
    /\ result = NoResult
    /\ os = NoOs
    /\ source = ""
    /\ output = <<>>
    /\ exit_code = None
    /\ history = <<>>

NextReuse == NextRipe \/ NextIPApi \/ NextCymru \/ NewCall

SpecReuse == InitReuse /\ [][NextReuse]_vars

----------------------------------------------------------------------------
(* Properties *)

Done == pc = "done"

\* lookup_asn got a response and read its body
GotBody == ~IsSome(env.send_err) /\ ~IsSome(env.read_err)

JsonBody == GotBody /\ env.body[1] = "json"

\* the member of the JSON body under key k, as an Option
BodyMember(k) ==
    IF env.body[2][1] = "obj" /\ k \in DOMAIN env.body[2][2] THEN Some(env.body[2][2][k]) ELSE None

\* the string under key k of the JSON body, or sentinel when absent or no string
BodyStringOr(k, sentinel) ==
    IF IsSome(BodyMember(k)) /\ Unwrap(BodyMember(k))[1] = "str" THEN Unwrap(BodyMember(k))[2] ELSE sentinel

InBandError == JsonBody /\ BodyMember("error") = Some(JBool(TRUE))

NonSuccess == env.status < 200 \/ env.status > 299

\* the lines of a stdout, split at "\n"
RECURSIVE StdoutLines(_)
StdoutLines(out) ==
    IF out = <<>> THEN <<>>
    ELSE IF \E i \in 1..Len(out) : out[i] = "\n"
    THEN LET i == CHOOSE i \in 1..Len(out) : out[i] = "\n" /\ \A j \in 1..(i - 1) : out[j] # "\n"
         IN  <<SubSeq(out, 1, i - 1)>> \o StdoutLines(SubSeq(out, i + 1, Len(out)))
    ELSE <<out>>

PipeCount(line) == Cardinality({i \in 1..Len(line) : line[i] = "|"})

\* the record of a line with exactly two separators
LineRecord(line) ==
    LET p == CHOOSE p \in 1..Len(line) : line[p] = "|" /\ \A j \in 1..(p - 1) : line[j] # "|"
        q == CHOOSE q \in 1..Len(line) : line[q] = "|" /\ \A j \in (q + 1)..Len(line) : line[j] # "|"
    IN  AsnInfo(Trim(SubSeq(line, 1, p - 1)), Trim(SubSeq(line, q + 1, Len(line))))

\* one record for every line after the first that splits into 3 fields, in line order
RECURSIVE WellFormedRecords(_)
WellFormedRecords(lines) ==
    IF lines = <<>> THEN <<>>
    ELSE IF PipeCount(Head(lines)) = 2
    THEN <<LineRecord(Head(lines))>> \o WellFormedRecords(Tail(lines))
    ELSE WellFormedRecords(Tail(lines))

ValidUtf8(out) == \A i \in 1..Len(out) : out[i] # BadByte

\* C1: TeamCymruWhois, command exited successfully with a (valid UTF-8) stdout:
\* the result holds one record for every line after the first that splits on
\* '|' into exactly 3 fields, in line order; a malformed line drops only itself.
C1_MalformedLineDropsOnlyItself ==
    (Done /\ provider = "TeamCymruWhois" /\ env.spawn = "ok" /\ env.exit = 0 /\ ValidUtf8(env.stdout))
        => result = Ok(WellFormedRecords(SkipHeader(StdoutLines(env.stdout))))

\* C2: every error a provider constructs itself (not the output of
\* map_reqwest_error) has a message that begins with "[ProviderName] ".
C2_ProviderErrorsArePrefixed ==
    (Done /\ result.tag = "Err" /\ result.origin # "map_reqwest_error")
        => StartsWith(result.msg, <<"[", provider, "] ">>)

\* C3: IPApi, whenever the body is a JSON object whose 'error' is true, for
\* every HTTP status: the lookup fails with kind Other and a message that
\* contains the 'reason' string (or "Unknown error").
C3_InBandErrorAtEveryStatus ==
    (Done /\ provider = "IPApi" /\ InBandError)
        => /\ result.tag = "Err"
           /\ result.kind = "Other"
           /\ Contains(result.msg, BodyStringOr("reason", <<"Unknown error">>))

\* C4: IPApi, whenever the body does not parse as JSON, for every HTTP status:
\* the lookup fails with kind InvalidData and a message that holds the raw body.
C4_NonJsonBodyAtEveryStatus ==
    (Done /\ provider = "IPApi" /\ GotBody /\ env.body[1] = "text")
        => /\ result.tag = "Err"
           /\ result.kind = "InvalidData"
           /\ Contains(result.msg, env.body[2])

C6_SuccessPathOneRecord ==
    (Done /\ provider = "IPApi" /\ JsonBody /\ ~NonSuccess /\ ~InBandError)
        => /\ result.tag = "Ok"
           /\ Len(result.val) = 1
           /\ result.val[1].asn = BodyStringOr("asn", <<"Unknown">>)
           /\ result.val[1].holder = BodyStringOr("org", <<"Unknown">>)

\* C6 witness: a body whose 'asn' is missing and whose 'org' is not a string
C6_Witness ==
    /\ Done /\ provider = "IPApi" /\ JsonBody /\ ~NonSuccess
    /\ BodyMember("asn") = None /\ BodyMember("org") = Some(JNum("u64", 1))
    /\ result = Ok(<<AsnInfo(<<"Unknown">>, <<"Unknown">>)>>)

HasData == JsonBody /\ IsSome(BodyMember("data"))

\* 'asns' of the body's 'data', as an Option
DataAsns ==
    LET d == Unwrap(BodyMember("data"))
    IN  IF d[1] = "obj" /\ "asns" \in DOMAIN d[2] THEN Some(d[2]["asns"]) ELSE None

HasAsnsArray == HasData /\ IsSome(DataAsns) /\ Unwrap(DataAsns)[1] = "arr"

\* C7: Ripe, JSON body without a top-level 'data' field: the lookup fails with
\* kind InvalidData and the message "Missing 'data' field in response".
C7_MissingData ==
    (Done /\ provider = "Ripe" /\ JsonBody /\ ~HasData)
        => /\ result.tag = "Err"
           /\ result.kind = "InvalidData"
           /\ result.msg = <<"Missing 'data' field in response">>

\* C7 witness: the body {"status": "ok"} has been answered with InvalidData
C7_Witness ==
    /\ Done /\ provider = "Ripe" /\ GotBody
    /\ env.body = <<"json", JObj([status |-> JStr(<<"ok">>)])>>
    /\ result.kind = "InvalidData"

\* C8: Ripe, body with a 'data' field in which 'asns' is absent or no array: the
\* lookup fails with kind InvalidData and the message
\* "Missing or invalid 'asns' field in response".
C8_MissingAsns ==
    (Done /\ provider = "Ripe" /\ HasData /\ ~HasAsnsArray)
        => /\ result.tag = "Err"
           /\ result.kind = "InvalidData"
           /\ result.msg = <<"Missing or invalid 'asns' field in response">>

\* C8 witness: 'asns' is present but a string, and the lookup has failed
C8_Witness ==
    /\ Done /\ provider = "Ripe" /\ HasData
    /\ DataAsns = Some(JStr(<<"none">>))
    /\ result.tag = "Err"

\* the decimal strings of the unsigned numbers the 'asn' fields take
Decimal(n) == CASE n = 0 -> <<"0">> [] n = 15169 -> <<"1", "5", "1", "6", "9">>

ElementMember(e, k) == IF e[1] = "obj" /\ k \in DOMAIN e[2] THEN e[2][k] ELSE JNull

ExpectedAsn(e) ==
    LET a == ElementMember(e, "asn")
    IN  IF a[1] = "num" /\ a[2] = "u64" THEN Decimal(a[3]) ELSE <<"N/A">>

ExpectedHolder(e) ==
    LET h == ElementMember(e, "holder")
    IN  IF h[1] = "str" THEN h[2] ELSE <<"Unknown">>

\* C9: Ripe, for each element of 'asns': asn is the decimal string of an
\* unsigned 'asn' and "N/A" otherwise, holder is a string 'holder' verbatim and
\* "Unknown" otherwise; neither fallback fails the lookup.
C9_LeafFallbacks ==
    (Done /\ provider = "Ripe" /\ HasAsnsArray)
        => /\ result.tag = "Ok"
           /\ Len(result.val) = Len(Unwrap(DataAsns)[2])
           /\ \A i \in 1..Len(result.val) :
                /\ result.val[i].asn = ExpectedAsn(Unwrap(DataAsns)[2][i])
                /\ result.val[i].holder = ExpectedHolder(Unwrap(DataAsns)[2][i])

\* C9 witness: a negative 'asn' without holder next to a complete element
C9_Witness ==
    /\ Done /\ provider = "Ripe" /\ HasAsnsArray
    /\ Unwrap(DataAsns)[2] = <<JObj([asn |-> JNum("neg", -1)]),
                               JObj([asn |-> JNum("u64", 15169), holder |-> JStr(<<"Google LLC">>)])>>
    /\ result = Ok(<<AsnInfo(<<"N/A">>, <<"Unknown">>),
                     AsnInfo(<<"1", "5", "1", "6", "9">>, <<"Google LLC">>)>>)

\* C10 as stated: Ripe fails whenever the response has a non-success status.
C10_NonSuccessStatusAlwaysFails ==
    (Done /\ provider = "Ripe" /\ ~IsSome(env.send_err) /\ NonSuccess) => result.tag = "Err"

\* C10 amended: Ripe does not inspect the status; a response with a non-success
\* status fails exactly when its body cannot be read, is not JSON, or has no
\* 'data' field holding an 'asns' array.
C10_NonSuccessStatusFailsOnBody ==
    (Done /\ provider = "Ripe" /\ ~IsSome(env.send_err) /\ NonSuccess)
        => (result.tag = "Err" <=> ~HasAsnsArray)

\* C10 witness: the 404 page "Not Found" has made the lookup fail
C10_Witness ==
    /\ Done /\ provider = "Ripe" /\ GotBody /\ env.status = 404
    /\ env.body = <<"text", <<"Not Found">>>>
    /\ result.tag = "Err"

\* C11: Ripe, a body that is not valid JSON goes through map_reqwest_error and,
\* being neither a timeout nor a connection failure, fails with kind Other.
C11_RipeNonJsonIsOther ==
    (Done /\ provider = "Ripe" /\ GotBody /\ env.body[1] = "text")
        => /\ result.tag = "Err"
           /\ result.kind = "Other"
           /\ result.origin = "map_reqwest_error"

\* C11 witness: a 200 response with the body "not valid json at all" has failed
C11_Witness ==
    /\ Done /\ provider = "Ripe" /\ GotBody /\ env.status = 200
    /\ env.body = <<"text", <<"not valid json at all">>>>
    /\ result.kind = "Other"

\* the kind the claim gives to a transport failure
ClaimedKind(e) ==
    IF e.is_timeout THEN "TimedOut" ELSE IF e.is_connect THEN "ConnectionRefused" ELSE "Other"

\* C12: map_reqwest_error gives every transport failure of Ripe and IPApi one
\* kind: TimedOut when timeout-classified, else ConnectionRefused when
\* connection-classified, else Other; a failure to connect is never Other.
C12_TransportKinds ==
    (Done /\ provider \in {"Ripe", "IPApi"} /\ IsSome(env.send_err))
        => /\ result.tag = "Err"
           /\ result.kind = ClaimedKind(Unwrap(env.send_err))
           /\ Unwrap(env.send_err).is_connect => result.kind \in {"ConnectionRefused", "TimedOut"}

\* C12 witness: a connect attempt that timed out has been reported as TimedOut
C12_Witness ==
    /\ Done /\ provider \in {"Ripe", "IPApi"} /\ IsSome(env.send_err)
    /\ Unwrap(env.send_err).is_timeout /\ Unwrap(env.send_err).is_connect
    /\ result.kind = "TimedOut"

\* main has parsed its arguments and called create_asn_fetcher
Created == pc \notin {"main", "create"} /\ ip # NoIp

Wrote(line) == \E i \in 1..Len(output) : output[i] = line

\* the advisory line of an unrecognized source, written out in full
Advisory == <<"stderr", <<"Unknown provider '", source, "', falling back to default provider: ripe">>>>

\* C13: create_asn_fetcher compares the source exactly: "ipapi" gives IPApi,
\* "cymru-whois" gives TeamCymruWhois, "ripe" and every other string give Ripe;
\* an unrecognized string alone causes no error, and the fallback notice is
\* written exactly when the source is none of the three names.
C13_SelectorExactMatch ==
    Created
        => /\ os.client_builds => provider # NoProvider
           /\ provider # NoProvider =>
                provider = IF source = "ipapi" THEN "IPApi"
                           ELSE IF source = "cymru-whois" THEN "TeamCymruWhois"
                           ELSE "Ripe"
           /\ Wrote(Advisory) <=> source \notin {"ipapi", "cymru-whois", "ripe"}

\* C13 witness: the source "RIPE" fell back to Ripe with the notice and looked up
C13_Witness ==
    /\ Created /\ source = "RIPE" /\ provider = "Ripe" /\ Wrote(Advisory)
    /\ pc = "exit" /\ exit_code = Some(0)

\* C14: every lookup_asn call sends exactly one request (Ripe, IPApi) or spawns
\* exactly one subprocess (TeamCymruWhois) and returns exactly one result; once
\* it has returned, also with a failure or a timeout, the call takes no further
\* step, so nothing is retried.
C14_OneRequestOneResult ==
    /\ [](/\ sent <= 1
          /\ pc = "start" => sent = 0
          /\ pc # "start" => sent = 1 /\ IsSome(request)
          /\ Done <=> result.tag # "None")
    /\ [][pc # "done" /\ result.tag = "None"]_vars

\* C14 witness: a request that timed out has been reported after one attempt
C14_Witness == Done /\ result.tag = "Err" /\ result.kind = "TimedOut" /\ sent = 1

\* C15: a provider's configuration is fixed at construction: over any sequence
\* of lookup_asn calls on one instance the request issued for a given IP is the
\* same on every call, whatever happened between the calls (a change of
\* IPAPI_API_KEY included).
C15_SameRequestOnEveryCall ==
    /\ \A i \in 1..Len(history) : history[i] = history[1]
    /\ (history # <<>> /\ IsSome(request)) => Unwrap(request) = history[1]

\* the text between the first and the last character of s that is no whitespace
Stripped(s) ==
    LET solid == {i \in 1..Len(s) : s[i] \notin {" ", "\t", "\n", "\r"}}
    IN  IF solid = {} THEN <<>>
        ELSE SubSeq(s, CHOOSE i \in solid : \A j \in solid : i <= j,
                       CHOOSE i \in solid : \A j \in solid : i >= j)

EndsWith(s, p) == Len(s) >= Len(p) /\ SubSeq(s, Len(s) - Len(p) + 1, Len(s)) = p

\* C16: TeamCymruWhois: a spawn failure yields kind Other with a message that
\* holds the OS error and the hint that whois may not be installed; a non-zero
\* exit yields kind Other with a message that holds the trimmed standard error;
\* in both cases no stdout line is parsed and no record is returned.
C16_SpawnAndExitFailures ==
    (provider = "TeamCymruWhois" /\ (env.spawn # "ok" \/ env.exit # 0))
        => /\ pc # "output"
           /\ result.val = <<>>
           /\ Done => /\ result.tag = "Err"
                      /\ result.kind = "Other"
                      /\ env.spawn # "ok" => /\ Contains(result.msg, env.oserr)
                                             /\ Contains(result.msg, <<", is whois installed?">>)
                      /\ env.spawn = "ok" => EndsWith(result.msg, <<"Command failed: ">> \o Stripped(env.stderr))

\* C16 witness: whois exited with status 1 and the standard error " e"
C16_Witness ==
    /\ Done /\ provider = "TeamCymruWhois" /\ env.spawn = "ok" /\ env.exit = 1
    /\ env.stderr = <<" ", "e">>
    /\ result.kind = "Other" /\ EndsWith(result.msg, <<"Command failed: ", "e">>)

\* stdout is empty or holds a single line, with or without its newline
HeaderOnly(out) == \A i \in 1..(Len(out) - 1) : out[i] # "\n"

\* C17: TeamCymruWhois, the command exited successfully with a stdout that is
\* empty or holds only the header line: the lookup succeeds with no record.
C17_HeaderOnlyIsEmptyList ==
    (Done /\ provider = "TeamCymruWhois" /\ env.spawn = "ok" /\ env.exit = 0 /\ HeaderOnly(env.stdout))
        => result = Ok(<<>>)

\* C17 witness: the only line is itself a well-formed data line
C17_Witness ==
    /\ Done /\ provider = "TeamCymruWhois" /\ env.spawn = "ok" /\ env.exit = 0
    /\ env.stdout = <<"A", "|", "|", "A", "\n">>
    /\ result = Ok(<<>>)

\* the command line holds one address, bare or after --ip / -i
OneAddress == Len(os.argv) = 1 \/ (Len(os.argv) = 2 /\ os.argv[1] \in {"--ip", "-i"})

TheAddress == os.argv[Len(os.argv)]

IsIpText(a) == a \in {"127.0.0.1", "::1", "8.8.8.8", "2001:4860:4860::8888"}

\* C18: the program exits with success when run with a valid IPv4 or IPv6
\* address and ASN_FETCHER_SKIP_LOOKUP=1, and with failure when the argument is
\* no IP address; in the failure case no provider is constructed and no
\* lookup is issued.
C18_CliExitStatus ==
    (pc = "exit" /\ OneAddress)
        => /\ (IsIpText(TheAddress) /\ os.skip_lookup) => exit_code = Some(0)
           /\ ~IsIpText(TheAddress) => /\ exit_code # Some(0)
                                       /\ provider = NoProvider
                                       /\ sent = 0

\* C19: Ripe, once the body has parsed as JSON: the lookup succeeds exactly
\* when the body has a 'data' whose 'asns' is an array; the result then has one
\* record per element, in array order, and an element that is no object gives
\* {"N/A", "Unknown"}.
C19_SuccessIffAsnsArray ==
    (Done /\ provider = "Ripe" /\ JsonBody)
        => /\ (result.tag = "Ok") <=> HasAsnsArray
           /\ HasAsnsArray =>
                LET arr == Unwrap(DataAsns)[2]
                IN  /\ Len(result.val) = Len(arr)
                    /\ \A i \in 1..Len(arr) :
                         /\ result.val[i] = AsnInfo(ExpectedAsn(arr[i]), ExpectedHolder(arr[i]))
                         /\ arr[i][1] # "obj" => result.val[i] = AsnInfo(<<"N/A">>, <<"Unknown">>)

C19_Witness ==
    /\ Done /\ provider = "Ripe" /\ HasAsnsArray
    /\ Len(Unwrap(DataAsns)[2]) = 2
    /\ Unwrap(DataAsns)[2][1] = JNull
    /\ Unwrap(DataAsns)[2][2][1] = "obj"
    /\ result.tag = "Ok"
    /\ Len(result.val) = 2
    /\ result.val[1] = AsnInfo(<<"N/A">>, <<"Unknown">>)

\* C20: IPApi, success status and a body that parses as JSON: the lookup fails
\* exactly when 'error' is the boolean true; an 'error' that is false, absent
\* or of another type returns one record, even when 'reason' is present.
C20_OnlyBooleanTrueIsError ==
    (Done /\ provider = "IPApi" /\ JsonBody /\ ~NonSuccess)
        => /\ (result.tag = "Err") <=> InBandError
           /\ ~InBandError => (result.tag = "Ok" /\ Len(result.val) = 1)

C20_Witness ==
    /\ Done /\ provider = "IPApi" /\ JsonBody /\ ~NonSuccess
    /\ BodyMember("error") \in {Some(JNum("u64", 1)), Some(JStr(<<"RateLimited">>))}
    /\ IsSome(BodyMember("reason"))
    /\ result.tag = "Ok"
    /\ Len(result.val) = 1

\* C21: TeamCymruWhois, on success: every returned record comes from a stdout
\* line that is not the first line and splits on '|' into exactly 3 fields,
\* with asn the trimmed first field and holder the trimmed third field, and the
\* records keep the order of their lines; the first line never gives a record.
C21_RecordsComeFromLaterLines ==
    (Done /\ provider = "TeamCymruWhois" /\ result.tag = "Ok")
        => LET lines == StdoutLines(env.stdout)
           IN  \E f \in [1..Len(result.val) -> 2..Len(lines)] :
                 /\ \A i, j \in 1..Len(result.val) : i < j => f[i] < f[j]
                 /\ \A i \in 1..Len(result.val) :
                      /\ PipeCount(lines[f[i]]) = 2
                      /\ result.val[i] = LineRecord(lines[f[i]])

\* C21 witness: a well-formed first line followed by two distinct data lines
C21_Witness ==
    /\ Done /\ provider = "TeamCymruWhois" /\ env.spawn = "ok" /\ env.exit = 0
    /\ env.stdout = <<"|", "|", "\n", "A", "|", "|", "\n", "|", "|", "A", "\n">>
    /\ result = Ok(<<AsnInfo(<<"A">>, <<>>), AsnInfo(<<>>, <<"A">>)>>)

====
